---- MODULE Spec2Model ----
(***************************************************************************)
(* Model of rt (main.go): the traceroute controller startTrace, the ICMP   *)
(* listener goroutine listenICMP, the unbuffered channel probChan between   *)
(* them, and the network that answers UDP probes with ICMP datagrams.      *)
(***************************************************************************)
EXTENDS Integers, Sequences, FiniteSets, TLC

\* ------------------------------------------------------------------ bounds
MaxStart == 2       \* largest value tried for -f
MaxHops == 3        \* largest value tried for -m
MaxProbes == 2      \* largest value tried for -q
MaxAttempts == 4    \* most probe attempts a run's flags may ask for
MaxFaults == 2      \* abnormal events in one run: socket, read and listen
                    \* failures, malformed and unrelated datagrams
MaxOutstanding == 1 \* probes the network may still answer; older ones are lost
MaxClock == 2       \* largest reading of the wall clock
MaxClockAttempts == 2   \* probe attempts of a run under SpecClock
MaxLiveAttempts == 3 \* probe attempts of a run under LiveSpec
MaxExtra == 2       \* bytes a datagram given to the codec has beyond the 22

\* ------------------------------------------------------- program constants
readBufSize == 1024
portF == 34500
HdrLen == 22        \* bytes 0..21 are the ones newProbeInfo indexes
ShortLen == HdrLen - 1   \* a datagram cut before the ICMP code byte

\* --------------------------------------------------------------- variables
VARIABLES
    ttlF, hopsF, probesF,  \* the flags -f, -m, -q, read-only after flag.Parse
    pc,         \* position of main/startTrace
    ttl, pro,   \* loop variables of startTrace
    port, seqNum, done,
    udpConn,    \* TRUE while the current iteration holds an open UDP socket
    leaked,     \* open UDP sockets no variable refers to any more
    timer,      \* "none", "running", "fired", "stopped", "drained"
    selChan,    \* value of probChan the select statement evaluated
    synced,     \* a channel receive has ordered the listener's write of probChan
    lpc,        \* position of listenICMP
    probChan,   \* FALSE: nil, TRUE: made
    pInfo,      \* the listener's decoded response waiting in "probChan <-"
    icmpSock,   \* receive queue of the raw ICMP socket
    inflight,   \* sequence numbers of probes written and not yet answered
    faults,     \* abnormal events so far
    now,        \* the wall clock, what time.Now().UnixNano() returns
    reads,      \* what the listener's conn.Read calls returned, in order
    hops,       \* hop numbers printed by line 109
    hist        \* one record per probe attempt, in order

vars == <<ttlF, hopsF, probesF, pc, ttl, pro, port, seqNum, done, udpConn,
          leaked, timer, selChan, synced, lpc, probChan, pInfo, icmpSock,
          inflight, faults, now, reads, hops, hist>>

ctlVars == <<pc, ttl, pro, port, seqNum, done, udpConn, timer, selChan,
             synced, hops, hist>>
lsnVars == <<lpc, probChan, pInfo>>
flagVars == <<ttlF, hopsF, probesF>>

\* no response: the nil *probeInfo, with the bookkeeping fields of the model
\* (origin: sequence number of the probe that elicited the datagram, 0 for
\* unrelated traffic; len: bytes conn.Read returned)
NoInfo == [p |-> <<>>, origin |-> -1, len |-> 0]

\* the entry of the read log for a conn.Read that returned an error
ReadErr == [p |-> <<>>, origin |-> -1, len |-> -1]

\* ------------------------------------------------------------ the network
\* An ICMP datagram as the raw socket delivers it: IPv4 header (20 bytes,
\* source address at 12..15) and the ICMP header (type at 20, code at 21).
\* Sequences are 1-based, so byte i of the datagram is element i+1.
MkDatagram(src, type, code, fill, n) ==
    [i \in 1..n |->
        IF i \in 13..16 THEN src[i - 12]
        ELSE IF i = 21 THEN type
        ELSE IF i = 22 THEN code
        ELSE fill]

RouterAddr(t) == <<10, 0, 0, t>>
DestAddr == <<93, 184, 216, 34>>
OtherAddr == <<192, 168, 1, 9>>

\* what the network can send back for a probe sent with TTL t
Replies(t) ==
    { MkDatagram(RouterAddr(t), 11, 0, 69, HdrLen),     \* time exceeded
      MkDatagram(DestAddr, 3, 3, 69, HdrLen) }          \* port unreachable

\* the same, cut short before the ICMP code byte
ShortReplies(t) == { SubSeq(d, 1, ShortLen) : d \in Replies(t) }

Unrelated == { MkDatagram(OtherAddr, 0, 0, 7, HdrLen) } \* an echo reply

\* net.LookupAddr: the names the resolver has for an address
LookupAddr(ip) == IF ip = RouterAddr(1) THEN <<"gw.example">> ELSE <<>>

\* ------------------------------------------------------------- the codec
\* line 90-91: a fresh zeroed buffer of readBufSize bytes, filled by conn.Read
\* with the first bytes of the datagram; the byte count is dropped.
ReadInto(d) ==
    [i \in 0..(readBufSize - 1) |-> IF i < Len(d) THEN d[i + 1] ELSE 0]

\* the responder taken from the destination address field of the IP header
newProbeInfo_dst(buf) ==
    LET routerIP == <<buf[16], buf[17], buf[18], buf[19]>>
        names == LookupAddr(routerIP)
    IN  [routerIP   |-> routerIP,
         routerName |-> IF Len(names) > 0 THEN names[1] ELSE "",
         icmpType   |-> buf[20],
         icmpCode   |-> buf[21]]

\* lines 171-187
newProbeInfo(buf) ==
    LET routerIP == <<buf[12], buf[13], buf[14], buf[15]>>
        names == LookupAddr(routerIP)
    IN  [routerIP   |-> routerIP,
         routerName |-> IF Len(names) > 0 THEN names[1] ELSE "",
         icmpType   |-> buf[20],
         icmpCode   |-> buf[21]]

\* lines 200-205
isPortUnreachable(p) == p.icmpType = 3 /\ p.icmpCode = 3

\* lines 189-198: the identity printed for the hop
printRouterIP(p) ==
    <<"router", IF p.routerName # "" THEN <<p.routerName>> ELSE p.routerIP,
      p.routerIP>>

\* int32(seqNum), line 122
Int32(n) ==
    LET m == 2147483647
    IN  IF n > m THEN ((n - m) - m) - 2 ELSE n

\* ------------------------------------------------------------------ Init
Init ==
    /\ ttlF \in 1..MaxStart
    /\ hopsF \in 1..MaxHops
    /\ probesF \in 0..MaxProbes
    /\ (hopsF - ttlF + 1) * probesF <= MaxAttempts
    /\ pc = "main"
    /\ ttl = 0 /\ pro = 0 /\ port = 0 /\ seqNum = 0 /\ done = FALSE
    /\ udpConn = FALSE /\ leaked = 0
    /\ timer = "none" /\ selChan = FALSE /\ synced = FALSE
    /\ lpc = "unborn" /\ probChan = FALSE /\ pInfo = NoInfo
    /\ icmpSock = <<>> /\ inflight = {} /\ faults = 0
    /\ now = 0 /\ reads = <<>>
    /\ hops = <<>> /\ hist = <<>>

Running == pc \notin {"main", "returned", "exited"}

\* --------------------------------------------------------------- main
\* lines 60-62: start the listener goroutine, then call startTrace, whose
\* first statements (102-105) set port, seqNum, done and ttl.
Main ==
    /\ pc = "main"
    /\ lpc' = "open"
    /\ pc' = "outer"
    /\ port' = portF /\ seqNum' = 0 /\ done' = FALSE /\ ttl' = ttlF
    /\ UNCHANGED <<flagVars, now, reads, pro, udpConn, leaked, timer, selChan, synced,
                   probChan, pInfo, icmpSock, inflight, faults,
                   hops, hist>>

\* ------------------------------------------------------------ listenICMP
\* lines 84-88, net.ListenIP succeeds: the channel is made
ListenOpen ==
    /\ Running /\ lpc = "open"
    /\ probChan' = TRUE
    /\ lpc' = "read"
    /\ UNCHANGED <<flagVars, now, reads, ctlVars, leaked, pInfo, icmpSock, inflight,
                   faults>>

\* lines 85-87, net.ListenIP fails: log.Fatalf ends the process
ListenOpenFail ==
    /\ Running /\ lpc = "open"
    /\ faults < MaxFaults
    /\ faults' = faults + 1
    /\ lpc' = "dead"
    /\ pc' = "exited"
    /\ UNCHANGED <<flagVars, now, reads, ttl, pro, port, seqNum, done, udpConn, timer,
                   selChan, synced, hops, hist, leaked, probChan, pInfo,
                   icmpSock, inflight>>

\* conn.Read succeeds and the push does not wait for the controller
ListenRead_nowait ==
    /\ Running /\ lpc \in {"read", "send"}
    /\ icmpSock # <<>>
    /\ pInfo' = [p      |-> newProbeInfo(ReadInto(Head(icmpSock).bytes)),
                 origin |-> Head(icmpSock).origin,
                 len    |-> Len(Head(icmpSock).bytes)]
    /\ icmpSock' = Tail(icmpSock)
    /\ reads' = Append(reads, pInfo')
    /\ lpc' = "send"
    /\ UNCHANGED <<flagVars, now, ctlVars, leaked, probChan, inflight, faults>>

\* lines 90-97, conn.Read succeeds: decode, then block in "probChan <- pInfo"
ListenRead ==
    /\ Running /\ lpc = "read"
    /\ icmpSock # <<>>
    /\ pInfo' = [p      |-> newProbeInfo(ReadInto(Head(icmpSock).bytes)),
                 origin |-> Head(icmpSock).origin,
                 len    |-> Len(Head(icmpSock).bytes)]
    /\ icmpSock' = Tail(icmpSock)
    /\ reads' = Append(reads, pInfo')
    /\ lpc' = "send"
    /\ UNCHANGED <<flagVars, now, ctlVars, leaked, probChan, inflight, faults>>

\* conn.Read fails and the listener returns
ListenReadErr_exit ==
    /\ Running /\ lpc = "read"
    /\ faults < MaxFaults
    /\ faults' = faults + 1
    /\ reads' = Append(reads, ReadErr)
    /\ lpc' = "dead"
    /\ UNCHANGED <<flagVars, now, ctlVars, probChan, pInfo, leaked, icmpSock,
                   inflight>>

\* lines 92-95, conn.Read fails: log and continue
ListenReadErr ==
    /\ Running /\ lpc = "read"
    /\ faults < MaxFaults
    /\ faults' = faults + 1
    /\ reads' = Append(reads, ReadErr)
    /\ UNCHANGED <<flagVars, now, ctlVars, lsnVars, leaked, icmpSock, inflight>>

\* ------------------------------------------------------------ startTrace
OuterCond_nodone(t, d) == t <= hopsF
OuterCond_lt(t, d) == t < hopsF /\ ~d

\* line 105 (loop condition) with lines 106-108
OuterCond(t, d) == t <= hopsF /\ ~d

InnerCond_le(p) == p <= probesF

\* line 110 (loop condition)
InnerCond(p) == p < probesF

\* line 142: the probe that prints the hop's responder
PrintsRouter(p) == p = 0

\* lines 146-148
DoneAfter(d, p) == IF isPortUnreachable(p) THEN TRUE ELSE d

SeqAfter_perhop(sq, connected) == IF connected THEN pro + 1 ELSE sq

\* lines 119-120 are reached only when connectUDP returned a socket
PortAfter(prt, connected) == IF connected THEN prt + 1 ELSE prt
SeqAfter(sq, connected) == IF connected THEN sq + 1 ELSE sq

\* what one iteration of the probe loop has recorded
Attempt(t, p, prt, sq, res) ==
    [ttl |-> t, pro |-> p, port |-> prt, seq |-> sq, result |-> res,
     out |-> <<>>, resp |-> <<>>, origin |-> -1, ts |-> 0, lat |-> 0]

\* lines 121-126: the packet built for a probe, stamped with the wall clock
Built(t, p, prt, sq, res) == [Attempt(t, p, prt, sq, res) EXCEPT !.ts = now]

\* lines 141, 145: endTS - startTS
Latency(endTS, startTS) == endTS - startTS

Last == Len(hist)

\* lines 105-109: test the hop loop; print the hop number and enter the
\* probe loop, or return (and with it main returns and the process ends)
OuterLoop ==
    /\ pc = "outer"
    /\ IF OuterCond(ttl, done)
          THEN /\ hops' = Append(hops, ttl)
               /\ pro' = 0
               /\ pc' = "inner"
          ELSE /\ pc' = "returned"
               /\ UNCHANGED <<hops, pro>>
    /\ UNCHANGED <<flagVars, now, reads, ttl, port, seqNum, done, udpConn, timer, selChan,
                   synced, hist, lsnVars, leaked, icmpSock, inflight,
                   faults>>

\* the hop ends and ttl advances by two
HopEnd_skip ==
    /\ pc = "inner"
    /\ ~InnerCond(pro)
    /\ ttl' = ttl + 2
    /\ pc' = "outer"
    /\ UNCHANGED <<flagVars, now, reads, pro, port, seqNum, done, udpConn, timer, selChan,
                   synced, hops, hist, lsnVars, leaked, icmpSock, inflight,
                   faults>>

\* line 110, the test of the probe loop failing: line 150 ends the hop and
\* line 105 increments ttl
HopEnd ==
    /\ pc = "inner"
    /\ ~InnerCond(pro)
    /\ ttl' = ttl + 1
    /\ pc' = "outer"
    /\ UNCHANGED <<flagVars, now, reads, pro, port, seqNum, done, udpConn, timer, selChan,
                   synced, hops, hist, lsnVars, leaked, icmpSock, inflight,
                   faults>>

\* lines 110-115, 159-162: net.DialUDP fails, no socket; continue
DialFail ==
    /\ pc = "inner"
    /\ InnerCond(pro)
    /\ faults < MaxFaults
    /\ faults' = faults + 1
    /\ hist' = Append(hist, Attempt(ttl, pro, port, 0, "dialfail"))
    /\ port' = PortAfter(port, FALSE)
    /\ seqNum' = SeqAfter(seqNum, FALSE)
    /\ pro' = pro + 1
    /\ UNCHANGED <<flagVars, now, reads, pc, ttl, done, udpConn, timer, selChan, synced,
                   hops, lsnVars, leaked, icmpSock, inflight>>

\* lines 110-115, 163-167: the socket is open, SetTTL fails, connectUDP
\* returns nil and drops its only reference to the socket; continue
SetTTLFail ==
    /\ pc = "inner"
    /\ InnerCond(pro)
    /\ faults < MaxFaults
    /\ faults' = faults + 1
    /\ hist' = Append(hist, Attempt(ttl, pro, port, 0, "ttlfail"))
    /\ port' = PortAfter(port, FALSE)
    /\ seqNum' = SeqAfter(seqNum, FALSE)
    /\ leaked' = leaked + 1
    /\ pro' = pro + 1
    /\ UNCHANGED <<flagVars, now, reads, pc, ttl, done, udpConn, timer, selChan, synced,
                   hops, lsnVars, icmpSock, inflight>>

\* udpConn.Write fails and the iteration goes on into the select statement
WriteFail_wait ==
    /\ pc = "inner"
    /\ InnerCond(pro)
    /\ faults < MaxFaults
    /\ faults' = faults + 1
    /\ port' = PortAfter(port, TRUE)
    /\ seqNum' = SeqAfter(seqNum, TRUE)
    /\ hist' = Append(hist, Built(ttl, pro, port, Int32(seqNum'), "writefail"))
    /\ udpConn' = TRUE
    /\ timer' = "running"
    /\ selChan' \in (IF probChan THEN {TRUE, FALSE} ELSE {FALSE})
    /\ pc' = "select"
    /\ UNCHANGED <<flagVars, now, reads, ttl, pro, done, synced, hops, lsnVars, leaked,
                   icmpSock, inflight>>

\* lines 110-131: connectUDP succeeds, seqNum++, port++, the packet is
\* built, udpConn.Write fails; continue. The socket is never closed: it
\* stays open with no reference left.
WriteFail ==
    /\ pc = "inner"
    /\ InnerCond(pro)
    /\ faults < MaxFaults
    /\ faults' = faults + 1
    /\ port' = PortAfter(port, TRUE)
    /\ seqNum' = SeqAfter(seqNum, TRUE)
    /\ hist' = Append(hist, Built(ttl, pro, port, Int32(seqNum'), "writefail"))
    /\ leaked' = leaked + 1
    /\ pro' = pro + 1
    /\ UNCHANGED <<flagVars, now, reads, pc, ttl, done, udpConn, timer, selChan, synced,
                   hops, lsnVars, icmpSock, inflight>>

\* the values the unsynchronised read of probChan at line 135 can yield:
\* nil before the listener's write, the channel or still nil after it until
\* a receive from the channel has ordered the two goroutines
ChanRead ==
    IF ~probChan THEN {FALSE}
    ELSE IF synced THEN {TRUE}
    ELSE {TRUE, FALSE}

\* the probe is written and the probe loop goes on without the select
SendProbe_nowait ==
    /\ pc = "inner"
    /\ InnerCond(pro)
    /\ udpConn' = FALSE
    /\ leaked' = leaked + 1
    /\ port' = PortAfter(port, TRUE)
    /\ seqNum' = SeqAfter(seqNum, TRUE)
    /\ hist' = Append(hist, Built(ttl, pro, port, Int32(seqNum'), "sent"))
    /\ inflight' = { f \in inflight : f.seq > seqNum' - MaxOutstanding }
                       \cup {[seq |-> Int32(seqNum'), ttl |-> ttl]}
    /\ pro' = pro + 1
    /\ pc' = "inner"
    /\ UNCHANGED <<flagVars, now, reads, ttl, done, timer, selChan, synced, hops,
                   lsnVars, icmpSock, faults>>

\* lines 110-134: connectUDP succeeds, seqNum++, port++, the probe is
\* written, the timer is started and the select statement evaluates its
\* channel operands
SendProbe ==
    /\ pc = "inner"
    /\ InnerCond(pro)
    /\ udpConn' = TRUE
    /\ port' = PortAfter(port, TRUE)
    /\ seqNum' = SeqAfter(seqNum, TRUE)
    /\ hist' = Append(hist, Built(ttl, pro, port, Int32(seqNum'), "sent"))
    /\ inflight' = { f \in inflight : f.seq > seqNum' - MaxOutstanding }
                       \cup {[seq |-> Int32(seqNum'), ttl |-> ttl]}
    /\ timer' = "running"
    /\ selChan' \in ChanRead
    /\ pc' = "select"
    /\ UNCHANGED <<flagVars, now, reads, ttl, pro, done, synced, hops, lsnVars, leaked,
                   icmpSock, faults>>

\* probeTimeout seconds have passed
TimerExpire ==
    /\ pc = "select"
    /\ timer = "running"
    /\ timer' = "fired"
    /\ UNCHANGED <<flagVars, now, reads, pc, ttl, pro, port, seqNum, done, udpConn,
                   selChan, synced, hops, hist, lsnVars, leaked, icmpSock,
                   inflight, faults>>

\* lines 137-139: the timer case; print "* " and continue
SelectTimeout ==
    /\ pc = "select"
    /\ timer = "fired"
    /\ timer' = "drained"
    /\ hist' = [hist EXCEPT ![Last].result = "timeout",
                            ![Last].out = Append(@, <<"*">>)]
    /\ udpConn' = FALSE
    /\ leaked' = leaked + 1
    /\ selChan' = FALSE
    /\ pro' = pro + 1
    /\ pc' = "inner"
    /\ UNCHANGED <<flagVars, now, reads, ttl, port, seqNum, done, synced, hops, lsnVars,
                   icmpSock, inflight, faults>>

\* timer.Stop left out
StopTimer_none(tm) == tm

\* line 136, timer.Stop: a running timer is cancelled; one that has fired
\* stays fired, its value left in timer.C
StopTimer(tm) == IF tm = "running" THEN "stopped" ELSE tm

\* the report without the latency
Report_noms(n, p) == IF PrintsRouter(n) THEN <<printRouterIP(p)>> ELSE <<>>

\* what lines 142-145 print for the response p taken by probe number n
Report(n, p) ==
    (IF PrintsRouter(n) THEN <<printRouterIP(p)>> ELSE <<>>) \o <<<<"ms">>>>

\* lines 135-136, 141-149: the channel case, a rendezvous with the listener
\* blocked at line 97; timer.Stop, the report, the done flag
SelectRecv ==
    /\ pc = "select"
    /\ selChan
    /\ lpc = "send"
    /\ timer' = StopTimer(timer)
    /\ synced' = TRUE
    /\ hist' = [hist EXCEPT ![Last].result = "reply",
                            ![Last].out = @ \o Report(pro, pInfo.p),
                            ![Last].resp = pInfo.p,
                            ![Last].origin = pInfo.origin,
                            ![Last].lat = Latency(now, hist[Last].ts)]
    /\ done' = DoneAfter(done, pInfo.p)
    /\ udpConn' = FALSE
    /\ leaked' = leaked + 1
    /\ selChan' = FALSE
    /\ pro' = pro + 1
    /\ pc' = "inner"
    /\ lpc' = "read"
    /\ pInfo' = NoInfo
    /\ UNCHANGED <<flagVars, now, reads, ttl, port, seqNum, hops, probChan, icmpSock,
                   inflight, faults>>

\* a collector cycle: the runtime's finalizers close the sockets that
\* nothing refers to any more (cycles are taken between hops; a cycle
\* commutes with every other step)
Finalize ==
    /\ pc = "outer"
    /\ leaked > 0
    /\ leaked' = 0
    /\ UNCHANGED <<flagVars, now, reads, ctlVars, lsnVars, icmpSock, inflight, faults>>

\* ------------------------------------------------------------ the network
SockOpen == lpc \in {"read", "send"}

\* the raw socket queues a datagram if it is open; otherwise it is lost
Deliver(d, from) ==
    IF SockOpen THEN Append(icmpSock, [bytes |-> d, origin |-> from])
    ELSE icmpSock

\* a router or the destination answers a probe
NetReply ==
    /\ Running
    /\ \E f \in inflight : \E d \in Replies(f.ttl) :
          /\ inflight' = inflight \ {f}
          /\ icmpSock' = Deliver(d, f.seq)
    /\ UNCHANGED <<flagVars, now, reads, ctlVars, lsnVars, leaked, faults>>

\* the answer to a probe arrives cut short
NetShortReply ==
    /\ Running
    /\ faults < MaxFaults
    /\ faults' = faults + 1
    /\ \E f \in inflight : \E d \in ShortReplies(f.ttl) :
          /\ inflight' = inflight \ {f}
          /\ icmpSock' = Deliver(d, f.seq)
    /\ UNCHANGED <<flagVars, now, reads, ctlVars, lsnVars, leaked>>

\* ICMP traffic of the host that no probe elicited
NetUnrelated ==
    /\ Running
    /\ SockOpen
    /\ faults < MaxFaults
    /\ faults' = faults + 1
    /\ \E d \in Unrelated : icmpSock' = Deliver(d, 0)
    /\ UNCHANGED <<flagVars, now, reads, ctlVars, lsnVars, leaked, inflight>>

\* ------------------------------------------------------------ the clock
\* time passes
ClockTick ==
    /\ Running
    /\ now < MaxClock
    /\ now' = now + 1
    /\ UNCHANGED <<flagVars, reads, ctlVars, lsnVars, leaked, icmpSock,
                   inflight, faults>>

\* the wall clock is set back (an NTP step, settimeofday)
ClockStepBack ==
    /\ Running
    /\ now > 0
    /\ faults < MaxFaults
    /\ faults' = faults + 1
    /\ now' = now - 1
    /\ UNCHANGED <<flagVars, reads, ctlVars, lsnVars, leaked, icmpSock,
                   inflight>>

Next ==
    \/ Main
    \/ ListenOpen \/ ListenOpenFail \/ ListenRead \/ ListenReadErr
    \/ OuterLoop \/ HopEnd
    \/ DialFail \/ SetTTLFail \/ WriteFail \/ SendProbe
    \/ TimerExpire \/ SelectTimeout \/ SelectRecv
    \/ Finalize
    \/ NetReply \/ NetShortReply \/ NetUnrelated

\* The program with time left out: the clock stands still.
Spec == Init /\ [][Next]_vars

\* The program with its wall clock, for runs of at most MaxClockAttempts
\* probe attempts.
InitClock == Init /\ (hopsF - ttlF + 1) * probesF <= MaxClockAttempts
NextClock == Next \/ ClockTick \/ ClockStepBack
SpecClock == InitClock /\ [][NextClock]_vars

\* The steps of the main goroutine without the runtime firing the timer.
Controller_notimer ==
    \/ Main \/ OuterLoop \/ HopEnd
    \/ DialFail \/ SetTTLFail \/ WriteFail \/ SendProbe
    \/ SelectTimeout \/ SelectRecv

\* The steps of the main goroutine (main, startTrace) and of the runtime
\* timer it started at line 132: the scheduler runs the goroutine whenever it
\* can take a step, and a started timer fires after probeTimeout seconds.
Controller ==
    \/ Main \/ OuterLoop \/ HopEnd
    \/ DialFail \/ SetTTLFail \/ WriteFail \/ SendProbe
    \/ TimerExpire \/ SelectTimeout \/ SelectRecv

\* The program under a fair scheduler, for runs of at most MaxLiveAttempts
\* probe attempts; the listener and the network stay unconstrained.
InitLive == Init /\ (hopsF - ttlF + 1) * probesF <= MaxLiveAttempts
LiveSpec == InitLive /\ [][Next]_vars /\ WF_vars(Controller)

\* The codec alone: the listener stands at conn.Read (line 91) with one
\* datagram of at least HdrLen bytes queued on its socket, and decodes it.
CodecInputs ==
    { MkDatagram(src, type, code, fill, n) :
        src \in {RouterAddr(1), DestAddr, OtherAddr},
        type \in {0, 3, 11}, code \in {0, 3}, fill \in {0, 69, 255},
        n \in HdrLen..(HdrLen + MaxExtra) }

InitCodec ==
    /\ ttlF = 1 /\ hopsF = 1 /\ probesF = 1
    /\ pc = "outer"
    /\ ttl = ttlF /\ pro = 0 /\ port = portF /\ seqNum = 0 /\ done = FALSE
    /\ udpConn = FALSE /\ leaked = 0
    /\ timer = "none" /\ selChan = FALSE /\ synced = FALSE
    /\ lpc = "read" /\ probChan = TRUE /\ pInfo = NoInfo
    /\ \E d \in CodecInputs : icmpSock = <<[bytes |-> d, origin |-> 0]>>
    /\ inflight = {} /\ faults = 0
    /\ now = 0 /\ reads = <<>>
    /\ hops = <<>> /\ hist = <<>>

NextCodec == ListenRead
SpecCodec == InitCodec /\ [][NextCodec]_vars

\* ===================================================================
\* Properties
\* ===================================================================
Attempts == 1..Len(hist)
AttemptsFor(t) == { i \in Attempts : hist[i].ttl = t }
Failed(i) == hist[i].result \in {"dialfail", "ttlfail", "writefail"}
Replied(i) == hist[i].result = "reply"
TimedOut(i) == hist[i].result = "timeout"
Unreach(i) ==
    Replied(i) /\ hist[i].resp.icmpType = 3 /\ hist[i].resp.icmpCode = 3
UnreachBefore(t) == \E i \in Attempts : hist[i].ttl < t /\ Unreach(i)

\* the probe loop of hop t has ended
HopOver(t) == pc = "returned" \/ (pc \in {"outer", "inner", "select"} /\ ttl > t)

\* C1: every TTL t in [startTTL, maxHops] gets exactly probesPerHop probe
\* attempts, failed ones included, unless a port-unreachable response was
\* received on an earlier hop, and then it gets none; no other TTL is probed.
C1_AttemptsPerHop ==
    /\ \A i \in Attempts : hist[i].ttl \in ttlF..hopsF
    /\ \A t \in ttlF..hopsF :
          /\ Cardinality(AttemptsFor(t)) <= probesF
          /\ UnreachBefore(t) => AttemptsFor(t) = {}
          /\ (HopOver(t) /\ ~UnreachBefore(t))
                => Cardinality(AttemptsFor(t)) = probesF

\* a finished run of two hops of two probes with a failed attempt in it
C1_Witness ==
    /\ pc = "returned"
    /\ probesF = 2
    /\ Len(hist) = 4
    /\ \E i \in Attempts : Failed(i)
    /\ ~UnreachBefore(hopsF)

\* C2: after a type 3 / code 3 response taken in hop t the remaining probes
\* of hop t are still made and no hop after t is started; with -m 3 -q 1 and
\* the first probe answered so, one hop is traced.
C2_StopsAfterUnreachable ==
    /\ \A i \in Attempts : Unreach(i) =>
          /\ \A j \in Attempts : hist[j].ttl <= hist[i].ttl
          /\ \A k \in 1..Len(hops) : hops[k] <= hist[i].ttl
          /\ HopOver(hist[i].ttl)
                => Cardinality(AttemptsFor(hist[i].ttl)) = probesF
    /\ (hopsF = 3 /\ probesF = 1 /\ ttlF = 1 /\ pc = "returned"
            /\ Len(hist) >= 1 /\ Unreach(1))
          => (hops = <<1>> /\ Len(hist) = 1)

\* port unreachable on the first of two probes of hop 1, the second probe
\* made, and startTrace back from a run that had hops left
C2_Witness ==
    /\ pc = "returned"
    /\ ttlF = 1 /\ hopsF >= 2 /\ probesF = 2
    /\ Len(hist) = 2
    /\ Unreach(1)
    /\ hist[2].ttl = 1

\* the scenario of C2: -m 3 -q 1, first probe answered port unreachable
C2_Scenario ==
    /\ pc = "returned"
    /\ ttlF = 1 /\ hopsF = 3 /\ probesF = 1
    /\ Len(hist) = 1 /\ Unreach(1)
    /\ hist[1].resp.routerIP = DestAddr

\* ---------------------------------------------------------------
Sent(i) == ~Failed(i) /\ hist[i].result \in {"sent", "timeout", "reply"}
OpenSockets == leaked + (IF udpConn THEN 1 ELSE 0)
PrintsId(i) == \E k \in 1..Len(hist[i].out) : hist[i].out[k][1] = "router"
Markers(i) == { k \in 1..Len(hist[i].out) : hist[i].out[k] = <<"*">> }

\* attempt i + 1 is the probe that follows attempt i in the loops
NextProbeFollows(i) ==
    IF hist[i].pro + 1 < probesF
       THEN hist[i + 1].ttl = hist[i].ttl /\ hist[i + 1].pro = hist[i].pro + 1
       ELSE hist[i + 1].ttl = hist[i].ttl + 1 /\ hist[i + 1].pro = 0

\* the controller has left attempt i behind and stands at the next probe
MovedOn(i) ==
    /\ pc # "select"
    /\ (pc = "inner" /\ ttl = hist[i].ttl) => pro = hist[i].pro + 1

\* C3: no probe is sent and no select on the channel is evaluated before the
\* listener has opened its socket and made probChan.
C3_ListenerReadyFirst ==
    /\ (\E i \in Attempts : Sent(i)) => probChan
    /\ pc = "select" => selChan

\* C4: a response taken while waiting for probe N was elicited by probe N.
C4_ReplyBelongsToProbe ==
    \A i \in Attempts : Replied(i) => hist[i].origin = hist[i].seq

\* C5: in a hop with an answered probe the responder identity is printed
\* exactly once, with the first answered probe of the hop.
C5_IdentityWithFirstAnswer ==
    \A i \in Attempts :
        PrintsId(i) <=>
            (Replied(i) /\ \A j \in AttemptsFor(hist[i].ttl) : j < i => ~Replied(j))

\* C6: the N-th probe attempt of the run (from 0) uses port basePort + N.
C6_PortOfNthAttempt ==
    \A i \in Attempts : hist[i].port = portF + (i - 1)

\* C7: a probe whose timer expires prints one timeout marker and the loop
\* goes to the next probe; a hop t < maxHops whose probes all time out shows
\* probesPerHop markers, no responder identity, and hop t + 1 is probed.
AllTimedOut(t) ==
    /\ probesF > 0
    /\ Cardinality({ i \in AttemptsFor(t) : TimedOut(i) }) = probesF

C7_TimeoutAdvances ==
    /\ \A i \in Attempts : TimedOut(i) =>
          /\ hist[i].out = << <<"*">> >>
          /\ i < Len(hist) => NextProbeFollows(i)
          /\ i = Len(hist) => MovedOn(i)
    /\ \A t \in ttlF..(hopsF - 1) : AllTimedOut(t) =>
          /\ \A i \in AttemptsFor(t) : ~PrintsId(i) /\ Cardinality(Markers(i)) = 1
          /\ (pc = "outer" /\ ttl = t + 1) => ~done
          /\ (ttl > t + 1 \/ pc = "returned" \/ (ttl = t + 1 /\ pc \in {"inner", "select"}))
                => \E k \in 1..Len(hops) : hops[k] = t + 1
          /\ pc = "returned" => Cardinality(AttemptsFor(t + 1)) = probesF

\* both probes of hop 1 timed out and hop 2 has been probed
C7_Witness ==
    /\ ttlF = 1 /\ probesF = 2 /\ hopsF >= 2
    /\ AllTimedOut(1)
    /\ AttemptsFor(2) # {}

\* C8: a probe's UDP socket is closed when its attempt ends, so at most one
\* is open at any time.
C8_SocketsClosed ==
    /\ OpenSockets <= 1
    /\ pc # "select" => OpenSockets = 0

\* C9: a datagram shorter than 22 bytes is discarded by the listener: no
\* response decoded from it is offered on the channel.
C9_ShortDatagramDiscarded ==
    lpc = "send" => pInfo.len >= HdrLen

\* C10: a probe whose socket open, TTL set or write failed is not retried,
\* is not waited for, prints neither marker nor latency, and is followed by
\* the next probe of the loops.
C10_FailedProbeSkipped ==
    \A i \in Attempts : Failed(i) =>
        /\ hist[i].out = <<>>
        /\ hist[i].resp = <<>>
        /\ \A j \in Attempts :
              (hist[j].ttl = hist[i].ttl /\ hist[j].pro = hist[i].pro) => j = i
        /\ i < Len(hist) => NextProbeFollows(i)
        /\ i = Len(hist) => (MovedOn(i) /\ timer # "running" /\ ~udpConn)

\* a failed write on the first probe of a hop, followed by the second probe
C10_Witness ==
    /\ Len(hist) >= 2
    /\ hist[1].result = "writefail"
    /\ hist[2].ttl = hist[1].ttl
    /\ Sent(2)

\* ---------------------------------------------------------------
\* the attempts for which startTrace built a packet (lines 121-125)
BuiltAt(i) == hist[i].result \notin {"dialfail", "ttlfail"}

\* C11: of any two probes built by startTrace the later one has the larger
\* sequence number, across hops, send failures and timeouts.
C11_SeqNumIncreasing ==
    \A i, j \in Attempts :
        (BuiltAt(i) /\ BuiltAt(j) /\ i < j) => hist[i].seq < hist[j].seq

\* probes built in two hops, with a failed write and a timeout between them
C11_Witness ==
    /\ Len(hist) >= 3
    /\ hist[1].result = "writefail"
    /\ TimedOut(2)
    /\ BuiltAt(3) /\ hist[3].ttl > hist[1].ttl

\* C12: a probe answered before its timeout reports a latency, the receive
\* timestamp minus the send timestamp, that is not negative.
C12_LatencyNonNegative ==
    \A i \in Attempts : Replied(i) => hist[i].lat >= 0

\* C13: from a datagram of at least 22 bytes newProbeInfo returns bytes
\* 12-15 as routerIP, byte 20 as icmpType and byte 21 as icmpCode, whatever
\* the other bytes are and whether or not the address has a name; without a
\* name routerName is empty.
C13_DecodeFields ==
    [][(lpc = "read" /\ lpc' = "send" /\ Len(Head(icmpSock).bytes) >= HdrLen) =>
          LET b == Head(icmpSock).bytes
              ip == <<b[13], b[14], b[15], b[16]>>
          IN  /\ pInfo'.p.routerIP = ip
              /\ pInfo'.p.icmpType = b[21]
              /\ pInfo'.p.icmpCode = b[22]
              /\ LookupAddr(ip) = <<>> => pInfo'.p.routerName = ""
              /\ LookupAddr(ip) # <<>> => pInfo'.p.routerName = LookupAddr(ip)[1]
      ]_vars

\* a datagram longer than 22 bytes, from an address without a name, decoded
C13_Witness ==
    /\ lpc = "send"
    /\ pInfo.len > HdrLen
    /\ pInfo.p.routerIP = DestAddr
    /\ pInfo.p.routerName = ""
    /\ pInfo.p.icmpType = 3 /\ pInfo.p.icmpCode = 3

\* C14: probes are never pipelined: when a probe is sent, every probe sent
\* before it has ended with a response taken from the channel or with its
\* timeout, and a probe ends as timed out only when its timer has fired.
C14_NoPipelining ==
    [][/\ (Len(hist') = Len(hist) + 1 /\ hist'[Len(hist')].result = "sent") =>
              /\ pc = "inner"
              /\ \A i \in Attempts : Sent(i) => (Replied(i) \/ TimedOut(i))
       /\ \A i \in Attempts :
              (i <= Len(hist') /\ ~TimedOut(i) /\ hist'[i].result = "timeout") =>
                  (i = Last /\ pc = "select" /\ timer = "fired")
       /\ \A i \in Attempts :
              (i <= Len(hist') /\ ~Replied(i) /\ hist'[i].result = "reply") =>
                  (i = Last /\ pc = "select" /\ lpc = "send" /\ lpc' = "read")
      ]_vars

\* a third probe is sent after one that was answered and one that timed out
C14_Witness ==
    /\ Len(hist) >= 3
    /\ Replied(1) /\ TimedOut(2)
    /\ hist[3].result = "sent"
    /\ pc = "select"

\* C15: startTrace always terminates: whatever the listener and the network
\* do, the controller eventually leaves the TTL loop (or the process has been
\* ended by the listener's log.Fatalf).
C15_Terminates == <>(pc \in {"returned", "exited"})

\* startTrace has returned after a wait ended by the timeout with the channel
\* not yet seen, and a wait ended by a response
C15_Witness ==
    /\ pc = "returned"
    /\ Len(hist) >= 2
    /\ TimedOut(1)
    /\ \E i \in Attempts : Replied(i)

\* the responses taken by the controller so far
Taken == { i \in Attempts : Replied(i) }

\* C16: once its socket is open the listener never leaves its receive loop:
\* a read error leaves it at conn.Read with nothing to push and nothing taken
\* by the controller; a successful read leaves it blocked in one push of the
\* decoded response, which stays pending, unchanged, until one receive of the
\* controller takes it.
C16_ListenerLoop ==
    [][/\ lpc \in {"read", "send"} => lpc' \in {"read", "send"}
       /\ lpc = "read" =>
              /\ Taken' = Taken
              /\ lpc' = "read" => pInfo' = NoInfo
              /\ (Len(reads') = Len(reads) + 1 /\ reads'[Len(reads')].len < 0) =>
                     lpc' = "read"
              /\ lpc' = "send" =>
                     /\ Len(reads') = Len(reads) + 1
                     /\ reads'[Len(reads')].len >= 0
                     /\ pInfo' = reads'[Len(reads')]
       /\ lpc = "send" =>
              \/ lpc' = "send" /\ pInfo' = pInfo /\ reads' = reads /\ Taken' = Taken
              \/ /\ lpc' = "read" /\ pInfo' = NoInfo /\ reads' = reads
                 /\ pc = "select"
                 /\ ~Replied(Last)
                 /\ Taken' = Taken \cup {Last}
                 /\ hist'[Last].resp = pInfo.p
      ]_vars

\* a read failed, the loop went on, a later read succeeded, and its push was
\* taken by the controller while the listener stays in the loop
C16_Witness ==
    /\ Len(reads) >= 2
    /\ reads[1].len < 0
    /\ reads[2].len >= 0
    /\ Taken # {}
    /\ lpc \in {"read", "send"}

\* C17: when a wait ends with a receive from the channel the probe's timer
\* is cancelled: a running timer never survives the select, so none is
\* pending when the next probe is sent or when startTrace returns.
C17_TimerCancelled ==
    /\ pc \in {"inner", "outer", "returned"} => timer # "running"
    /\ timer = "stopped" =>
           \E i \in Attempts : Replied(i) /\ \A j \in Attempts : j > i => Failed(j)
    /\ (pc \in {"inner", "outer", "returned"} /\ Len(hist) > 0 /\ Replied(Last)) =>
           timer \in {"stopped", "fired"}

\* startTrace has returned after its last probe was answered while the
\* timer was still running
C17_Witness ==
    /\ pc = "returned"
    /\ Len(hist) > 0
    /\ Replied(Last)
    /\ timer = "stopped"

\* the latency values printed for attempt i
Latencies(i) == { k \in 1..Len(hist[i].out) : hist[i].out[k] = <<"ms">> }

\* the controller is past the select of attempt i
WaitOver(i) == i < Last \/ pc \in {"inner", "outer", "returned"}

\* C18: every probe whose payload was written has, once its wait is over,
\* exactly one outcome: one latency value and no timeout marker when a
\* response was taken, one timeout marker and no latency value otherwise;
\* while it waits it has printed neither.
C18_OneOutcome ==
    \A i \in Attempts :
        Sent(i) =>
            /\ WaitOver(i) => Replied(i) \/ TimedOut(i)
            /\ Replied(i) =>
                   Cardinality(Latencies(i)) = 1 /\ Markers(i) = {}
            /\ TimedOut(i) =>
                   Cardinality(Markers(i)) = 1 /\ Latencies(i) = {}
            /\ hist[i].result = "sent" =>
                   Latencies(i) = {} /\ Markers(i) = {}

\* after a probe that timed out, a response was taken in a select whose
\* timer had fired as well
C18_Witness ==
    /\ Len(hist) >= 2
    /\ pc = "inner"
    /\ TimedOut(1)
    /\ Replied(Last) /\ timer = "fired"
    /\ Latencies(Last) # {} /\ Markers(Last) = {}

\* the datagrams the listener has read successfully, decoded, in order
GoodReads == SelectSeq(reads, LAMBDA r : r.len >= 0)

\* the attempts that took a response from the channel, in order
TakenSeq == SelectSeq(hist, LAMBDA a : a.result = "reply")

\* C19: the channel neither drops, duplicates nor reorders: the responses
\* taken by the controller are a prefix of the datagrams the listener has
\* read, and the only read response not yet taken is the one the listener
\* is blocked on.
C19_ChannelPrefix ==
    /\ Len(TakenSeq) <= Len(GoodReads)
    /\ \A k \in 1..Len(TakenSeq) :
           /\ TakenSeq[k].resp = GoodReads[k].p
           /\ TakenSeq[k].origin = GoodReads[k].origin
    /\ Len(GoodReads) - Len(TakenSeq) = (IF lpc = "send" THEN 1 ELSE 0)
    /\ lpc = "send" => pInfo = GoodReads[Len(GoodReads)]

\* one response taken, a different one pending in the listener's push, and a
\* third datagram waiting on the socket, unread
C19_Witness ==
    /\ Len(TakenSeq) >= 1
    /\ lpc = "send"
    /\ pInfo.p # TakenSeq[1].resp
    /\ icmpSock # <<>>

\* C20: the TTLs of successive probe attempts never decrease, lie in
\* [startTTL, maxHops], start at startTTL and go up by exactly 1 from one
\* hop to the next; with startTTL > maxHops nothing is attempted.
C20_TTLSequence ==
    /\ \A i \in Attempts : hist[i].ttl \in ttlF..hopsF
    /\ \A i \in Attempts : i < Last => hist[i + 1].ttl \in {hist[i].ttl, hist[i].ttl + 1}
    /\ \A k \in 1..Len(hops) :
           /\ hops[k] = ttlF + k - 1
           /\ hops[k] <= hopsF
    /\ \A i \in Attempts : \E k \in 1..Len(hops) : hops[k] = hist[i].ttl
    /\ (pc \in {"inner", "select"}) => ttl = hops[Len(hops)]
    /\ ttlF > hopsF => hist = <<>> /\ hops = <<>>

\* a trace started at TTL 2 that failed, timed out or was answered on its
\* way has probed hop 3 and returned
C20_Witness ==
    /\ pc = "returned"
    /\ ttlF = 2 /\ hopsF = 3
    /\ Len(hist) >= 2
    /\ hist[1].ttl = 2
    /\ hist[Last].ttl = 3

====
